---- MODULE Spec2Model ----
(***************************************************************************)
(* Model of ticket_assignment_system.py: the keyword classifiers, the      *)
(* agent scoring in IEEE-754 binary64 arithmetic, and the greedy           *)
(* assignment loop of assign_tickets driven by main.                       *)
(***************************************************************************)
EXTENDS Integers, Sequences, FiniteSets, TLC

\* Bounds of the explored inputs: roster length and batch length.
MaxAgents == 2
MaxTickets == 2

\* creation_timestamp values of the explored tickets (an earlier and a later one).
Timestamps == {1, 2}

(***************************************************************************)
(* Text.  A Python str is a sequence of one-character strings.             *)
(***************************************************************************)
UpperCase == <<"A", "B", "C", "D", "E", "F", "G", "H", "I", "J", "K", "L", "M",
               "N", "O", "P", "Q", "R", "S", "T", "U", "V", "W", "X", "Y", "Z">>

LowerCase == <<"a", "b", "c", "d", "e", "f", "g", "h", "i", "j", "k", "l", "m",
               "n", "o", "p", "q", "r", "s", "t", "u", "v", "w", "x", "y", "z">>

\* str.lower() on one character.
lower_char(c) ==
  IF \E i \in 1..Len(UpperCase) : UpperCase[i] = c
  THEN LowerCase[CHOOSE i \in 1..Len(UpperCase) : UpperCase[i] = c]
  ELSE c

\* text.lower()
lower(text) == [i \in 1..Len(text) |-> lower_char(text[i])]

\* Python's `keyword in text`: keyword occurs as a contiguous substring.
KeywordIn(keyword, text) ==
  \E i \in 0..(Len(text) - Len(keyword)) :
    \A j \in 1..Len(keyword) : text[i + j] = keyword[j]

\* The inner loop `for keyword in keywords: if keyword in text_lower`.
AnyKeywordIn(keywords, text_lower) ==
  \E j \in 1..Len(keywords) : KeywordIn(keywords[j], text_lower)

(***************************************************************************)
(* The keyword tables of __init__, in dict insertion order.                *)
(***************************************************************************)
skill_keywords ==
  <<
    [skill |-> "VPN_Troubleshooting", keywords |-> <<
        <<"v", "p", "n">>,
        <<"v", "i", "r", "t", "u", "a", "l", " ", "p", "r", "i", "v", "a", "t", "e", " ", "n", "e", "t", "w", "o", "r", "k">>,
        <<"t", "u", "n", "n", "e", "l">>,
        <<"a", "u", "t", "h", "e", "n", "t", "i", "c", "a", "t", "i", "o", "n", " ", "e", "r", "r", "o", "r">>>>],
    [skill |-> "Networking", keywords |-> <<
        <<"n", "e", "t", "w", "o", "r", "k">>,
        <<"c", "o", "n", "n", "e", "c", "t", "i", "v", "i", "t", "y">>,
        <<"p", "i", "n", "g">>,
        <<"s", "w", "i", "t", "c", "h">>,
        <<"r", "o", "u", "t", "e", "r">>,
        <<"o", "u", "t", "a", "g", "e">>,
        <<"d", "n", "s">>>>],
    [skill |-> "Hardware_Diagnostics", keywords |-> <<
        <<"h", "a", "r", "d", "w", "a", "r", "e">>,
        <<"l", "a", "p", "t", "o", "p">>,
        <<"d", "e", "s", "k", "t", "o", "p">>,
        <<"b", "o", "o", "t">>,
        <<"b", "i", "o", "s">>,
        <<"f", "a", "n">>,
        <<"o", "v", "e", "r", "h", "e", "a", "t", "i", "n", "g">>,
        <<"p", "o", "r", "t">>,
        <<"u", "s", "b">>,
        <<"m", "o", "n", "i", "t", "o", "r">>,
        <<"p", "r", "o", "j", "e", "c", "t", "o", "r">>>>],
    [skill |-> "Laptop_Repair", keywords |-> <<
        <<"l", "a", "p", "t", "o", "p">>,
        <<"b", "a", "t", "t", "e", "r", "y">>,
        <<"c", "h", "a", "r", "g", "i", "n", "g">>,
        <<"s", "c", "r", "e", "e", "n">>,
        <<"k", "e", "y", "b", "o", "a", "r", "d">>,
        <<"f", "a", "n">>>>],
    [skill |-> "Microsoft_365", keywords |-> <<
        <<"o", "u", "t", "l", "o", "o", "k">>,
        <<"m", "i", "c", "r", "o", "s", "o", "f", "t", " ", "3", "6", "5">>,
        <<"m", "3", "6", "5">>,
        <<"e", "m", "a", "i", "l">>,
        <<"o", "n", "e", "d", "r", "i", "v", "e">>,
        <<"t", "e", "a", "m", "s">>>>],
    [skill |-> "Active_Directory", keywords |-> <<
        <<"a", "c", "t", "i", "v", "e", " ", "d", "i", "r", "e", "c", "t", "o", "r", "y">>,
        <<"a", "d">>,
        <<"a", "c", "c", "o", "u", "n", "t">>,
        <<"u", "s", "e", "r", " ", "a", "c", "c", "o", "u", "n", "t">>,
        <<"d", "o", "m", "a", "i", "n">>,
        <<"l", "o", "g", "i", "n">>,
        <<"p", "a", "s", "s", "w", "o", "r", "d", " ", "r", "e", "s", "e", "t">>,
        <<"s", "s", "o">>,
        <<"s", "a", "m", "l">>>>],
    [skill |-> "Database_SQL", keywords |-> <<
        <<"d", "a", "t", "a", "b", "a", "s", "e">>,
        <<"s", "q", "l", " ", "s", "e", "r", "v", "e", "r">>,
        <<"q", "u", "e", "r", "y">>,
        <<"b", "a", "c", "k", "u", "p">>,
        <<"c", "o", "n", "n", "e", "c", "t", "i", "o", "n", " ", "t", "i", "m", "e", "o", "u", "t">>>>],
    [skill |-> "Network_Security", keywords |-> <<
        <<"s", "e", "c", "u", "r", "i", "t", "y">>,
        <<"f", "i", "r", "e", "w", "a", "l", "l">>,
        <<"i", "n", "t", "r", "u", "s", "i", "o", "n">>,
        <<"b", "r", "e", "a", "c", "h">>,
        <<"m", "a", "l", "i", "c", "i", "o", "u", "s">>>>],
    [skill |-> "Endpoint_Security", keywords |-> <<
        <<"m", "a", "l", "w", "a", "r", "e">>,
        <<"a", "n", "t", "i", "v", "i", "r", "u", "s">>,
        <<"t", "r", "o", "j", "a", "n">>,
        <<"p", "h", "i", "s", "h", "i", "n", "g">>,
        <<"s", "e", "c", "u", "r", "i", "t", "y">>>>],
    [skill |-> "Cloud_Azure", keywords |-> <<
        <<"a", "z", "u", "r", "e">>,
        <<"a", "p", "p", " ", "s", "e", "r", "v", "i", "c", "e">>,
        <<"c", "l", "o", "u", "d">>>>],
    [skill |-> "Cloud_AWS", keywords |-> <<
        <<"a", "w", "s">>,
        <<"c", "l", "o", "u", "d">>>>],
    [skill |-> "Printer_Troubleshooting", keywords |-> <<
        <<"p", "r", "i", "n", "t", "e", "r">>,
        <<"p", "r", "i", "n", "t", "i", "n", "g">>>>],
    [skill |-> "SharePoint_Online", keywords |-> <<
        <<"s", "h", "a", "r", "e", "p", "o", "i", "n", "t">>,
        <<"c", "o", "l", "l", "a", "b", "o", "r", "a", "t", "i", "o", "n">>,
        <<"s", "i", "t", "e">>>>],
    [skill |-> "Voice_VoIP", keywords |-> <<
        <<"v", "o", "i", "p">>,
        <<"p", "h", "o", "n", "e">>,
        <<"c", "a", "l", "l">>>>],
    [skill |-> "Web_Server_Apache_Nginx", keywords |-> <<
        <<"w", "e", "b", "s", "i", "t", "e">>,
        <<"w", "e", "b", " ", "s", "e", "r", "v", "e", "r">>,
        <<"5", "0", "2">>,
        <<"5", "0", "0">>,
        <<"4", "0", "4">>>>],
    [skill |-> "Windows_OS", keywords |-> <<
        <<"w", "i", "n", "d", "o", "w", "s">>,
        <<"d", "e", "s", "k", "t", "o", "p">>,
        <<"p", "c">>>>],
    [skill |-> "Mac_OS", keywords |-> <<
        <<"m", "a", "c">>,
        <<"m", "a", "c", "o", "s">>,
        <<"m", "a", "c", "b", "o", "o", "k">>>>],
    [skill |-> "Linux_Administration", keywords |-> <<
        <<"l", "i", "n", "u", "x">>,
        <<"u", "b", "u", "n", "t", "u">>,
        <<"s", "a", "m", "b", "a">>,
        <<"p", "e", "r", "m", "i", "s", "s", "i", "o", "n">>>>],
    [skill |-> "DevOps_CI_CD", keywords |-> <<
        <<"j", "e", "n", "k", "i", "n", "s">>,
        <<"c", "i", "/", "c", "d">>>>],
    [skill |-> "Virtualization_VMware", keywords |-> <<
        <<"v", "m">>,
        <<"v", "i", "r", "t", "u", "a", "l", " ", "m", "a", "c", "h", "i", "n", "e">>,
        <<"v", "m", "w", "a", "r", "e">>>>],
    [skill |-> "API_Troubleshooting", keywords |-> <<
        <<"a", "p", "i">>>>],
    [skill |-> "DNS_Configuration", keywords |-> <<
        <<"d", "n", "s">>>>],
    [skill |-> "SSL_Certificates", keywords |-> <<
        <<"s", "s", "l">>,
        <<"c", "e", "r", "t", "i", "f", "i", "c", "a", "t", "e">>>>],
    [skill |-> "Phishing_Analysis", keywords |-> <<
        <<"p", "h", "i", "s", "h", "i", "n", "g">>>>],
    [skill |-> "SIEM_Logging", keywords |-> <<
        <<"s", "i", "e", "m">>,
        <<"l", "o", "g">>>>],
    [skill |-> "Identity_Management", keywords |-> <<
        <<"i", "d", "e", "n", "t", "i", "t", "y">>,
        <<"s", "s", "o">>>>],
    [skill |-> "SaaS_Integrations", keywords |-> <<
        <<"s", "a", "a", "s">>,
        <<"i", "n", "t", "e", "g", "r", "a", "t", "i", "o", "n">>>>],
    [skill |-> "Firewall_Configuration", keywords |-> <<
        <<"f", "i", "r", "e", "w", "a", "l", "l">>>>],
    [skill |-> "Switch_Configuration", keywords |-> <<
        <<"s", "w", "i", "t", "c", "h">>>>],
    [skill |-> "Routing_Protocols", keywords |-> <<
        <<"r", "o", "u", "t", "i", "n", "g">>>>],
    [skill |-> "Network_Monitoring", keywords |-> <<
        <<"m", "o", "n", "i", "t", "o", "r", "i", "n", "g">>>>],
    [skill |-> "Endpoint_Management", keywords |-> <<
        <<"e", "n", "d", "p", "o", "i", "n", "t">>>>],
    [skill |-> "PowerShell_Scripting", keywords |-> <<
        <<"p", "o", "w", "e", "r", "s", "h", "e", "l", "l">>>>],
    [skill |-> "Software_Licensing", keywords |-> <<
        <<"l", "i", "c", "e", "n", "s", "e">>>>],
    [skill |-> "Python_Scripting", keywords |-> <<
        <<"p", "y", "t", "h", "o", "n">>>>],
    [skill |-> "Kubernetes_Docker", keywords |-> <<
        <<"k", "u", "b", "e", "r", "n", "e", "t", "e", "s">>,
        <<"d", "o", "c", "k", "e", "r">>>>],
    [skill |-> "ETL_Processes", keywords |-> <<
        <<"e", "t", "l">>>>],
    [skill |-> "Data_Warehousing", keywords |-> <<
        <<"d", "a", "t", "a", " ", "w", "a", "r", "e", "h", "o", "u", "s", "e">>>>],
    [skill |-> "PowerBI_Tableau", keywords |-> <<
        <<"p", "o", "w", "e", "r", "b", "i">>,
        <<"t", "a", "b", "l", "e", "a", "u">>>>],
    [skill |-> "Cisco_IOS", keywords |-> <<
        <<"c", "i", "s", "c", "o">>>>],
    [skill |-> "Network_Cabling", keywords |-> <<
        <<"c", "a", "b", "l", "e">>,
        <<"c", "a", "b", "l", "i", "n", "g">>>>]
  >>

priority_keywords ==
  [
    critical |-> <<
        <<"c", "r", "i", "t", "i", "c", "a", "l">>,
        <<"b", "u", "s", "i", "n", "e", "s", "s", "-", "c", "r", "i", "t", "i", "c", "a", "l">>,
        <<"d", "o", "w", "n">>,
        <<"o", "u", "t", "a", "g", "e">>,
        <<"n", "o", "t", " ", "w", "o", "r", "k", "i", "n", "g">>,
        <<"f", "a", "i", "l", "u", "r", "e">>,
        <<"f", "a", "i", "l", "e", "d">>,
        <<"c", "r", "a", "s", "h">>,
        <<"u", "r", "g", "e", "n", "t">>,
        <<"i", "m", "m", "e", "d", "i", "a", "t", "e">>>>,
    high |-> <<
        <<"h", "i", "g", "h">>,
        <<"s", "e", "c", "u", "r", "i", "t", "y">>,
        <<"b", "r", "e", "a", "c", "h">>,
        <<"m", "a", "l", "w", "a", "r", "e">>,
        <<"s", "l", "o", "w">>,
        <<"p", "e", "r", "f", "o", "r", "m", "a", "n", "c", "e">>,
        <<"l", "o", "c", "k", "e", "d">>,
        <<"c", "a", "n", "n", "o", "t">>,
        <<"u", "n", "a", "b", "l", "e">>,
        <<"b", "r", "o", "k", "e", "n">>>>,
    medium |-> <<
        <<"m", "e", "d", "i", "u", "m">>,
        <<"s", "y", "n", "c">>,
        <<"a", "c", "c", "e", "s", "s">>,
        <<"p", "e", "r", "m", "i", "s", "s", "i", "o", "n">>,
        <<"c", "o", "n", "f", "i", "g", "u", "r", "a", "t", "i", "o", "n">>>>,
    low |-> <<
        <<"r", "e", "q", "u", "e", "s", "t">>,
        <<"s", "e", "t", "u", "p">>,
        <<"n", "e", "w", " ", "u", "s", "e", "r">>,
        <<"l", "i", "c", "e", "n", "s", "e">>,
        <<"s", "t", "a", "n", "d", "a", "r", "d">>,
        <<"r", "o", "u", "t", "i", "n", "e">>>>
  ]

\* extract_required_skills: list(set(relevant_skills)).  The list's order is
\* the set's iteration order, which Python leaves unspecified (string hashes
\* are seeded per process); the model keeps the set and draws the order where
\* the list is iterated (see create_assignment_rationale and AssignBest).
extract_required_skills(text) ==
  LET text_lower == lower(text)
  IN  { skill_keywords[k].skill :
          k \in { k \in 1..Len(skill_keywords) :
                    AnyKeywordIn(skill_keywords[k].keywords, text_lower) } }

\* Mutation of calculate_priority_score: the tiers are tested lowest first.
calculate_priority_score_LowFirst(text) ==
  LET text_lower == lower(text)
  IN  IF AnyKeywordIn(priority_keywords.low, text_lower) THEN 2
      ELSE IF AnyKeywordIn(priority_keywords.medium, text_lower) THEN 5
      ELSE IF AnyKeywordIn(priority_keywords.high, text_lower) THEN 8
      ELSE IF AnyKeywordIn(priority_keywords.critical, text_lower) THEN 10
      ELSE 6

\* calculate_priority_score: four loops in order, each returning on its
\* first match, then the default.
calculate_priority_score(text) ==
  LET text_lower == lower(text)
  IN  IF AnyKeywordIn(priority_keywords.critical, text_lower) THEN 10
      ELSE IF AnyKeywordIn(priority_keywords.high, text_lower) THEN 8
      ELSE IF AnyKeywordIn(priority_keywords.medium, text_lower) THEN 5
      ELSE IF AnyKeywordIn(priority_keywords.low, text_lower) THEN 2
      ELSE 6

(***************************************************************************)
(* Python floats.  A binary64 value v with 2^-8 <= v < 2^11 (or v = 0) is   *)
(* an integer multiple of 2^-60; it is held exactly as <<i, f1, f2, f3>>   *)
(* with v = i + f1/2^20 + f2/2^40 + f3/2^60 and 0 <= f1, f2, f3 < 2^20.    *)
(* Every arithmetic result is rounded to 53 significant bits, ties to even.*)
(***************************************************************************)
LimbBase == 2^20

FZero == <<0, 0, 0, 0>>

\* An int converted to float.
FromInt(k) == <<k, 0, 0, 0>>

\* h/2 as a float (h halves): exact.
FromHalves(h) == <<h \div 2, (h % 2) * (LimbBase \div 2), 0, 0>>

RECURSIVE Log2Floor(_)
Log2Floor(k) == IF k < 2 THEN 0 ELSE 1 + Log2Floor(k \div 2)

\* The binary exponent e of x: 2^e <= x < 2^(e+1).
FExponent(x) ==
  IF x[1] >= 1 THEN Log2Floor(x[1])
  ELSE IF x[2] >= 1 THEN Log2Floor(x[2]) - 20
  ELSE IF x[3] >= 1 THEN Log2Floor(x[3]) - 40
  ELSE Log2Floor(x[4]) - 60

\* Carry propagation after a limb-wise operation.
FCarry(x) ==
  LET s3 == x[4]
      s2 == x[3] + (s3 \div LimbBase)
      s1 == x[2] + (s2 \div LimbBase)
  IN  <<x[1] + (s1 \div LimbBase), s1 % LimbBase, s2 % LimbBase, s3 % LimbBase>>

\* Round-to-nearest-even to 53 significant bits.  x holds the exact value
\* truncated to 60 fractional bits, sticky says bits were lost below them.
\* With exponent e the last kept bit is 2^(e-52), so d = e + 8 bits of the
\* last limb are dropped.
FRound(x, sticky) ==
  IF x = FZero THEN x
  ELSE LET d == FExponent(x) + 8
       IN  IF d <= 0 THEN x
           ELSE LET q    == 2^d
                    r    == x[4] % q
                    keep == x[4] - r
                    half == q \div 2
                    up   == \/ r > half
                            \/ r = half /\ (sticky \/ (keep \div q) % 2 = 1)
                IN  FCarry(<<x[1], x[2], x[3], keep + (IF up THEN q ELSE 0)>>)

\* int / int (true division), n > 0, s >= 0.
FDivInt(s, n) ==
  LET r0 == s % n
      r1 == (r0 * LimbBase) % n
      r2 == (r1 * LimbBase) % n
      r3 == (r2 * LimbBase) % n
  IN  FRound(<<s \div n, (r0 * LimbBase) \div n, (r1 * LimbBase) \div n,
               (r2 * LimbBase) \div n>>, r3 # 0)

\* float * 10
FMul10(x) == FRound(FCarry(<<10 * x[1], 10 * x[2], 10 * x[3], 10 * x[4]>>), FALSE)

\* float + float
FAdd(x, y) == FRound(FCarry(<<x[1] + y[1], x[2] + y[2], x[3] + y[3], x[4] + y[4]>>), FALSE)

\* x < y
FLess(x, y) ==
  \/ x[1] < y[1]
  \/ x[1] = y[1] /\ x[2] < y[2]
  \/ x[1] = y[1] /\ x[2] = y[2] /\ x[3] < y[3]
  \/ x[1] = y[1] /\ x[2] = y[2] /\ x[3] = y[3] /\ x[4] < y[4]

(***************************************************************************)
(* Scoring.                                                                *)
(***************************************************************************)
max_reasonable_load == 5

Max(a, b) == IF a >= b THEN a ELSE b

Min(a, b) == IF a <= b THEN a ELSE b

\* sum(skill_scores): the agent's proficiency for each required skill, 0 for
\* a skill the agent lacks.  Proficiencies are ints, so the sum is exact and
\* does not depend on the order of the list.
RECURSIVE SumSkillScores(_, _)
SumSkillScores(agent, required_skills) ==
  IF required_skills = {} THEN 0
  ELSE LET skill == CHOOSE s \in required_skills : TRUE
       IN  (IF skill \in DOMAIN agent.skills THEN agent.skills[skill] ELSE 0)
           + SumSkillScores(agent, required_skills \ {skill})

\* Mutation of WorkloadScore: the clamp at 0 is missing.
WorkloadScore_NoClamp(current_load) == (max_reasonable_load - current_load) * 6

\* workload_score = max(0, (max_reasonable_load - current_load) * 6)
WorkloadScore(current_load) == Max(0, (max_reasonable_load - current_load) * 6)

\* Mutation of calculate_agent_score: the priority bonus is granted by the
\* agent's experience level instead of the ticket's priority.
calculate_agent_score_BonusByExperience(agent, required_skills, priority_score, current_load) ==
  LET n == Cardinality(required_skills)
      avg_skill_score == IF n > 0 THEN FDivInt(SumSkillScores(agent, required_skills), n)
                         ELSE FZero
      skill_match_score  == FMul10(avg_skill_score)
      experience_score   == FromHalves(Min(3 * agent.experience_level, 40))
      workload_score     == WorkloadScore(current_load)
      availability_score == IF agent.availability_status = "Available" THEN 10 ELSE 0
      priority_bonus     == IF agent.experience_level >= 8 THEN FromHalves(priority_score)
                            ELSE FZero
  IN  [ total_score        |-> FAdd(FAdd(FAdd(FAdd(skill_match_score, experience_score),
                                              FromInt(workload_score)),
                                         FromInt(availability_score)),
                                    priority_bonus),
        skill_score        |-> skill_match_score,
        experience_score   |-> experience_score,
        workload_score     |-> workload_score,
        availability_score |-> availability_score,
        priority_bonus     |-> priority_bonus ]

\* calculate_agent_score.  experience_level * 1.5 is 3 * experience_level
\* halves and priority_score * 0.5 is priority_score halves, both exact; the
\* division, the scaling by 10 and the four additions round.
calculate_agent_score(agent, required_skills, priority_score, current_load) ==
  LET n == Cardinality(required_skills)
      avg_skill_score == IF n > 0 THEN FDivInt(SumSkillScores(agent, required_skills), n)
                         ELSE FZero
      skill_match_score  == FMul10(avg_skill_score)
      experience_score   == FromHalves(Min(3 * agent.experience_level, 40))
      workload_score     == WorkloadScore(current_load)
      availability_score == IF agent.availability_status = "Available" THEN 10 ELSE 0
      priority_bonus     == IF priority_score >= 8 THEN FromHalves(priority_score)
                            ELSE FZero
  IN  [ total_score        |-> FAdd(FAdd(FAdd(FAdd(skill_match_score, experience_score),
                                              FromInt(workload_score)),
                                         FromInt(availability_score)),
                                    priority_bonus),
        skill_score        |-> skill_match_score,
        experience_score   |-> experience_score,
        workload_score     |-> workload_score,
        availability_score |-> availability_score,
        priority_bonus     |-> priority_bonus ]

(***************************************************************************)
(* Rationale.  The f-string is kept as its parts: the sentence list that   *)
(* ". ".join assembles, the first sentence as the values interpolated.     *)
(***************************************************************************)
\* required_skills is the list as iterated.
create_assignment_rationale(agent, required_skills, score_info, priority) ==
  LET mine == SelectSeq(required_skills, LAMBDA s : s \in DOMAIN agent.skills)
      relevant_skills == [k \in 1..Len(mine) |-> <<mine[k], agent.skills[mine[k]]>>]
      skill_text == SubSeq(relevant_skills, 1, Min(3, Len(relevant_skills)))
      assigned == IF relevant_skills # <<>>
                  THEN [ name |-> agent.name, agent_id |-> agent.agent_id,
                         expertise_in |-> skill_text ]
                  ELSE [ name |-> agent.name, agent_id |-> agent.agent_id,
                         experience_level |-> agent.experience_level ]
  IN  <<assigned>>
      \o (IF score_info.workload_score > 15
          THEN <<"and lower current workload">> ELSE <<>>)
      \o (IF priority >= 8
          THEN <<"High priority ticket requiring immediate attention">> ELSE <<>>)

\* The orders in which a list made from the set S can come out.
ListsOf(S) ==
  { p \in [1..Cardinality(S) -> S] : \A i, j \in 1..Cardinality(S) : i # j => p[i] # p[j] }

(***************************************************************************)
(* Sorting.  list.sort is stable, also with reverse=True.                  *)
(***************************************************************************)
\* key(a) < key(b) for key = (-priority, creation_timestamp)
TicketKeyLess(a, b) ==
  \/ a.priority > b.priority
  \/ a.priority = b.priority
     /\ a.ticket.creation_timestamp < b.ticket.creation_timestamp

\* x goes before the first element whose key is greater, after its equals.
InsertTicket(sorted, x) ==
  LET later == { i \in 1..Len(sorted) : TicketKeyLess(x, sorted[i]) }
      p == IF later = {} THEN Len(sorted) + 1
           ELSE CHOOSE i \in later : \A j \in later : i <= j
  IN  SubSeq(sorted, 1, p - 1) \o <<x>> \o SubSeq(sorted, p, Len(sorted))

\* Mutation of SortTickets: the sort is not stable (tickets with equal keys
\* come out in reverse input order).
RECURSIVE SortTickets_Unstable(_)
SortTickets_Unstable(seq) ==
  IF seq = <<>> THEN <<>>
  ELSE InsertTicket(SortTickets_Unstable(Tail(seq)), Head(seq))

\* tickets_with_metadata.sort(key=lambda x: (-x['priority'], x['ticket']['creation_timestamp']))
RECURSIVE SortTickets(_)
SortTickets(seq) ==
  IF seq = <<>> THEN <<>>
  ELSE InsertTicket(SortTickets(SubSeq(seq, 1, Len(seq) - 1)), seq[Len(seq)])

\* x goes before the first element whose total is smaller, after its equals.
InsertScore(sorted, x) ==
  LET lower_scored == { i \in 1..Len(sorted) :
                          FLess(sorted[i].score_info.total_score, x.score_info.total_score) }
      p == IF lower_scored = {} THEN Len(sorted) + 1
           ELSE CHOOSE i \in lower_scored : \A j \in lower_scored : i <= j
  IN  SubSeq(sorted, 1, p - 1) \o <<x>> \o SubSeq(sorted, p, Len(sorted))

\* Mutation of SortScores: an ascending sort followed by a reversal, which
\* puts the last of several equal totals first.
RECURSIVE SortScores_Reversed(_)
SortScores_Reversed(seq) ==
  IF seq = <<>> THEN <<>>
  ELSE InsertScore(SortScores_Reversed(Tail(seq)), Head(seq))

\* agent_scores.sort(key=lambda x: x['score_info']['total_score'], reverse=True)
RECURSIVE SortScores(_)
SortScores(seq) ==
  IF seq = <<>> THEN <<>>
  ELSE InsertScore(SortScores(SubSeq(seq, 1, Len(seq) - 1)), seq[Len(seq)])

(***************************************************************************)
(* The explored inputs: dataset.json.                                      *)
(***************************************************************************)
\* The explored agents.  Proficiencies, experience levels and loads are
\* ints, as in the dataset of the repository.
NoSkills == [s \in {} |-> 0]

AgentPool ==
  { [ agent_id |-> "agent_001", name |-> "Asha",
      skills |-> ("VPN_Troubleshooting" :> 1),
      experience_level |-> 0, availability_status |-> "Away", current_load |-> 0 ],
    [ agent_id |-> "agent_002", name |-> "Bram",
      skills |-> ("VPN_Troubleshooting" :> 1),
      experience_level |-> 4, availability_status |-> "Away", current_load |-> 1 ],
    [ agent_id |-> "agent_003", name |-> "Chen",
      skills |-> ("Networking" :> 8 @@ "Laptop_Repair" :> 7 @@ "Software_Licensing" :> 6),
      experience_level |-> 14, availability_status |-> "Available", current_load |-> 3 ],
    [ agent_id |-> "agent_004", name |-> "Dana",
      skills |-> NoSkills,
      experience_level |-> 14, availability_status |-> "Available", current_load |-> 5 ] }

\* title and description of the explored tickets: "Security access" /
\* "laptop VPN dns" (high and medium phrases, seven skills), "Urgent" /
\* "license request" (critical and low), "Mailbox sync" / "request" (medium
\* and low, no skill), "New" / "user" (the low phrase "new user" spans the
\* joining space), "Hello" / "vpn" (no phrase).
TextPool ==
  { [ title |-> <<"S", "e", "c", "u", "r", "i", "t", "y", " ", "a", "c", "c", "e", "s", "s">>,
      description |-> <<"l", "a", "p", "t", "o", "p", " ", "V", "P", "N", " ", "d", "n", "s">> ],
    [ title |-> <<"U", "r", "g", "e", "n", "t">>,
      description |-> <<"l", "i", "c", "e", "n", "s", "e", " ", "r", "e", "q", "u", "e", "s", "t">> ],
    [ title |-> <<"M", "a", "i", "l", "b", "o", "x", " ", "s", "y", "n", "c">>,
      description |-> <<"r", "e", "q", "u", "e", "s", "t">> ],
    [ title |-> <<"N", "e", "w">>,
      description |-> <<"u", "s", "e", "r">> ],
    [ title |-> <<"H", "e", "l", "l", "o">>,
      description |-> <<"v", "p", "n">> ] }

\* Rosters: agents with distinct agent_id, in any order.
Rosters ==
  UNION { { r \in [1..n -> AgentPool] : \A i, j \in 1..n : i # j => r[i] # r[j] } :
          n \in 0..MaxAgents }

TicketIds == <<"TKT-1", "TKT-2", "TKT-3", "TKT-4">>

\* Batches: tickets with distinct ticket_id (by position in the input).
Batches ==
  UNION { { [ i \in 1..n |-> [ ticket_id |-> TicketIds[i],
                               title |-> b[i][1].title,
                               description |-> b[i][1].description,
                               creation_timestamp |-> b[i][2] ] ] :
            b \in [1..n -> TextPool \X Timestamps] } :
          n \in 0..MaxTickets }

MissingFile == [ present |-> FALSE, agents |-> <<>>, tickets |-> <<>> ]

Datasets ==
  { [ present |-> TRUE, agents |-> r, tickets |-> b ] : r \in Rosters, b \in Batches }
  \cup { MissingFile }

\* text = ticket['title'] + " " + ticket['description']
TicketText(ticket) == ticket.title \o <<" ">> \o ticket.description

\* The classifiers applied to the explored texts, evaluated once.
Texts == { TicketText(t) : t \in TextPool }

PriorityOfText == [ text \in Texts |-> calculate_priority_score(text) ]

SkillsOfText == [ text \in Texts |-> extract_required_skills(text) ]

(***************************************************************************)
(* State.                                                                  *)
(***************************************************************************)
VARIABLES
  data,                   \* dataset.json as loaded (present: the file exists)
  pc,                     \* main, loop, pick, done, crashed, exit
  run,                    \* first or second execution of the script
  agent_loads,            \* assign_tickets: agent_id -> load during the run
  tickets_with_metadata,  \* assign_tickets: the annotated, sorted tickets
  ticket_index,           \* position of the for loop over tickets_with_metadata
  agent_scores,           \* assign_tickets: the sorted scores of the current ticket
  assignments,            \* assign_tickets: the records emitted so far
  output_file,            \* output_result.json of this execution
  prev_output             \* output_result.json of the first execution

vars == <<data, pc, run, agent_loads, tickets_with_metadata, ticket_index,
          agent_scores, assignments, output_file, prev_output>>

agents_data == data.agents

tickets_data == data.tickets

NotWritten == [ written |-> FALSE, sample_output |-> <<>> ]

NoLoads == [ id \in {} |-> 0 ]

\* Mutation of InitialLoads: every counter starts at 0.
InitialLoads_Zero(agents) ==
  [ id \in { agents[i].agent_id : i \in 1..Len(agents) } |-> 0 ]

\* agent_loads = {agent['agent_id']: agent['current_load'] for agent in agents_data}
InitialLoads(agents) ==
  [ id \in { agents[i].agent_id : i \in 1..Len(agents) } |->
      agents[CHOOSE i \in 1..Len(agents) :
               /\ agents[i].agent_id = id
               /\ \A j \in 1..Len(agents) : agents[j].agent_id = id => j <= i].current_load ]

\* Mutation of AnnotateTickets: a ticket that matches no skill is skipped.
AnnotateTickets_SkipUnskilled(tickets) ==
  LET all == [ i \in 1..Len(tickets) |->
                 [ ticket |-> tickets[i],
                   priority |-> PriorityOfText[TicketText(tickets[i])],
                   required_skills |-> SkillsOfText[TicketText(tickets[i])] ] ]
  IN  SelectSeq(all, LAMBDA m : m.required_skills # {})

\* The loop that prepares tickets_with_metadata, in input order.
AnnotateTickets(tickets) ==
  [ i \in 1..Len(tickets) |->
      [ ticket |-> tickets[i],
        priority |-> PriorityOfText[TicketText(tickets[i])],
        required_skills |-> SkillsOfText[TicketText(tickets[i])] ] ]

Init ==
  /\ data \in Datasets
  /\ pc = "main"
  /\ run = "first"
  /\ agent_loads = NoLoads
  /\ tickets_with_metadata = <<>>
  /\ ticket_index = 1
  /\ agent_scores = <<>>
  /\ assignments = <<>>
  /\ output_file = NotWritten
  /\ prev_output = NotWritten

\* main: dataset.json is missing; the error is printed and main returns.
FileNotFound ==
  /\ pc = "main"
  /\ ~data.present
  /\ pc' = "exit"
  /\ UNCHANGED <<data, run, agent_loads, tickets_with_metadata, ticket_index,
                 agent_scores, assignments, output_file, prev_output>>

\* main loads the dataset and calls assign_tickets, which copies the loads,
\* annotates every ticket and sorts them.
BeginAssignTickets ==
  /\ pc = "main"
  /\ data.present
  /\ agent_loads' = InitialLoads(agents_data)
  /\ tickets_with_metadata' = SortTickets(AnnotateTickets(tickets_data))
  /\ ticket_index' = 1
  /\ agent_scores' = <<>>
  /\ assignments' = <<>>
  /\ pc' = "loop"
  /\ UNCHANGED <<data, run, output_file, prev_output>>

\* One iteration, first half: score every agent with its current load, sort.
ScoreAgents ==
  /\ pc = "loop"
  /\ ticket_index <= Len(tickets_with_metadata)
  /\ LET ticket_info == tickets_with_metadata[ticket_index]
     IN  agent_scores' =
           SortScores([ i \in 1..Len(agents_data) |->
                          [ agent |-> agents_data[i],
                            score_info |->
                              calculate_agent_score(agents_data[i],
                                                    ticket_info.required_skills,
                                                    ticket_info.priority,
                                                    agent_loads[agents_data[i].agent_id]) ] ])
  /\ pc' = "pick"
  /\ UNCHANGED <<data, run, agent_loads, tickets_with_metadata, ticket_index,
                 assignments, output_file, prev_output>>

\* Mutation of AssignBest: the new load is also stored into the agent's
\* input record.
AssignBest_WriteBack ==
  /\ pc = "pick"
  /\ agent_scores # <<>>
  /\ LET ticket_info == tickets_with_metadata[ticket_index]
         best_agent  == agent_scores[1].agent
         best_score  == agent_scores[1].score_info
     IN  /\ agent_loads' = [agent_loads EXCEPT ![best_agent.agent_id] = @ + 1]
         /\ data' = [data EXCEPT !.agents =
                       [ i \in 1..Len(agents_data) |->
                           IF agents_data[i].agent_id = best_agent.agent_id
                           THEN [agents_data[i] EXCEPT !.current_load = @ + 1]
                           ELSE agents_data[i] ]]
         /\ \E required_skills \in ListsOf(ticket_info.required_skills
                                            \cap DOMAIN best_agent.skills) :
              assignments' = Append(assignments,
                [ ticket_id |-> ticket_info.ticket.ticket_id,
                  title |-> ticket_info.ticket.title,
                  assigned_agent_id |-> best_agent.agent_id,
                  rationale |-> create_assignment_rationale(
                                  best_agent, required_skills, best_score,
                                  ticket_info.priority) ])
  /\ ticket_index' = ticket_index + 1
  /\ pc' = "loop"
  /\ UNCHANGED <<run, tickets_with_metadata, agent_scores, output_file, prev_output>>

\* One iteration, second half: the first of the sorted scores is assigned,
\* its counter incremented, the record appended.  The list required_skills
\* comes in one of the orders of the set; the rationale's loop skips the
\* skills the agent lacks, so only the order of those it has is drawn.
AssignBest ==
  /\ pc = "pick"
  /\ agent_scores # <<>>
  /\ LET ticket_info == tickets_with_metadata[ticket_index]
         best_agent  == agent_scores[1].agent
         best_score  == agent_scores[1].score_info
     IN  /\ agent_loads' = [agent_loads EXCEPT ![best_agent.agent_id] = @ + 1]
         /\ \E required_skills \in ListsOf(ticket_info.required_skills
                                            \cap DOMAIN best_agent.skills) :
              assignments' = Append(assignments,
                [ ticket_id |-> ticket_info.ticket.ticket_id,
                  title |-> ticket_info.ticket.title,
                  assigned_agent_id |-> best_agent.agent_id,
                  rationale |-> create_assignment_rationale(
                                  best_agent, required_skills, best_score,
                                  ticket_info.priority) ])
  /\ ticket_index' = ticket_index + 1
  /\ pc' = "loop"
  /\ UNCHANGED <<data, run, tickets_with_metadata, agent_scores, output_file,
                 prev_output>>

\* agent_scores[0] on an empty list: IndexError, uncaught; the script dies
\* before output_result.json is opened.
IndexError ==
  /\ pc = "pick"
  /\ agent_scores = <<>>
  /\ pc' = "crashed"
  /\ UNCHANGED <<data, run, agent_loads, tickets_with_metadata, ticket_index,
                 agent_scores, assignments, output_file, prev_output>>

\* The loop is exhausted: assign_tickets returns and main writes the file.
WriteOutput ==
  /\ pc = "loop"
  /\ ticket_index > Len(tickets_with_metadata)
  /\ output_file' = [ written |-> TRUE, sample_output |-> assignments ]
  /\ pc' = "done"
  /\ UNCHANGED <<data, run, agent_loads, tickets_with_metadata, ticket_index,
                 agent_scores, assignments, prev_output>>

\* The script is executed a second time on the same dataset.json, in a
\* working directory without the first execution's output.
RunAgain ==
  /\ pc \in {"done", "crashed", "exit"}
  /\ run = "first"
  /\ run' = "second"
  /\ prev_output' = output_file
  /\ output_file' = NotWritten
  /\ agent_loads' = NoLoads
  /\ tickets_with_metadata' = <<>>
  /\ ticket_index' = 1
  /\ agent_scores' = <<>>
  /\ assignments' = <<>>
  /\ pc' = "main"
  /\ UNCHANGED data

Next ==
  \/ FileNotFound
  \/ BeginAssignTickets
  \/ ScoreAgents
  \/ AssignBest
  \/ IndexError
  \/ WriteOutput
  \/ RunAgain

Spec == Init /\ [][Next]_vars

(***************************************************************************)
(* Properties.                                                             *)
(***************************************************************************)
Last(seq) == seq[Len(seq)]

\* How many of the assignments emitted so far went to agent id.
AssignedCount(id) ==
  Cardinality({ k \in 1..Len(assignments) : assignments[k].assigned_agent_id = id })

\* The position of a ticket in the input list.
InputPosition(ticket_id) ==
  CHOOSE i \in 1..Len(tickets_data) : tickets_data[i].ticket_id = ticket_id

\* The ticket of the current loop iteration.
CurrentTicket == tickets_with_metadata[ticket_index]

\* The total score of an agent for the current ticket under the current loads.
CurrentScore(agent) ==
  calculate_agent_score(agent, CurrentTicket.required_skills, CurrentTicket.priority,
                        agent_loads[agent.agent_id])

\* The same sum with the priority bonus left out.
TotalWithoutBonus(score_info) ==
  FAdd(FAdd(FAdd(score_info.skill_score, score_info.experience_score),
            FromInt(score_info.workload_score)),
       FromInt(score_info.availability_score))

\* 2n times the bonus-less total in exact arithmetic, n the number of
\* required skills (1 when there is none).
ExactTotalWithoutBonus(agent) ==
  LET n == Max(1, Cardinality(CurrentTicket.required_skills))
  IN  20 * SumSkillScores(agent, CurrentTicket.required_skills)
      + n * ( Min(3 * agent.experience_level, 40)
              + 2 * Max(0, 30 - 6 * agent_loads[agent.agent_id])
              + 2 * (IF agent.availability_status = "Available" THEN 10 ELSE 0) )

\* The first agent of the roster whose value under f is the maximum
\* (Less compares two values of f).
FirstMaxIndex(f(_), Less(_, _)) ==
  CHOOSE i \in 1..Len(agents_data) :
    /\ \A j \in 1..Len(agents_data) : ~Less(f(agents_data[i]), f(agents_data[j]))
    /\ \A j \in 1..(i - 1) : Less(f(agents_data[j]), f(agents_data[i]))

\* A tier's phrase occurs in the lower-cased text.
HasPhrase(tier, text) ==
  \E j \in 1..Len(priority_keywords[tier]) :
    KeywordIn(priority_keywords[tier][j], lower(text))

TierPhrasesOfText ==
  [ text \in Texts |-> [ tier \in {"critical", "high", "medium", "low"} |->
                           HasPhrase(tier, text) ] ]

\* C1: with a non-empty roster the run completes, and the output holds as
\* many records as there are input tickets, each input ticket_id in exactly
\* one of them.
C1_OneAssignmentPerTicket ==
  agents_data # <<>> =>
    /\ pc # "crashed"
    /\ pc = "done" =>
         /\ output_file.written
         /\ Len(output_file.sample_output) = Len(tickets_data)
         /\ \A i \in 1..Len(tickets_data) :
              Cardinality({ k \in 1..Len(output_file.sample_output) :
                              output_file.sample_output[k].ticket_id =
                                tickets_data[i].ticket_id }) = 1

\* C1 witness: a finished run of two tickets, one of them matching no skill,
\* returned in another order than they came in.
C1_Witness ==
  /\ pc = "done"
  /\ agents_data # <<>>
  /\ Len(tickets_data) = 2
  /\ \E i \in 1..2 : SkillsOfText[TicketText(tickets_data[i])] = {}
  /\ output_file.sample_output[1].ticket_id = tickets_data[2].ticket_id

\* C2: once the counters are initialised, after every processed ticket and at
\* the end, each agent's counter is its initial current_load plus the number
\* of assignments emitted so far that name it.
C2_LoadAccounting ==
  pc \in {"loop", "pick", "done"} =>
    \A i \in 1..Len(agents_data) :
      agent_loads[agents_data[i].agent_id] =
        agents_data[i].current_load + AssignedCount(agents_data[i].agent_id)

\* C2 witness: a finished run in which an agent that started with load 3 or
\* more received a ticket and another agent received none.
C2_Witness ==
  /\ pc = "done"
  /\ \E i, j \in 1..Len(agents_data) :
       /\ agents_data[i].current_load >= 3
       /\ AssignedCount(agents_data[i].agent_id) >= 1
       /\ AssignedCount(agents_data[j].agent_id) = 0

\* C3: the tickets are processed by priority descending, then timestamp
\* ascending, then input position ascending, and the assignments are emitted
\* in that order.
C3_ProcessingOrder ==
  pc \in {"loop", "pick", "done"} =>
    /\ Len(tickets_with_metadata) = Len(tickets_data)
    /\ \A k \in 1..Len(tickets_with_metadata) :
         /\ \E i \in 1..Len(tickets_data) : tickets_data[i] = tickets_with_metadata[k].ticket
         /\ tickets_with_metadata[k].priority =
              PriorityOfText[TicketText(tickets_with_metadata[k].ticket)]
    /\ \A i, j \in 1..Len(tickets_with_metadata) :
         i < j =>
           LET a == tickets_with_metadata[i]
               b == tickets_with_metadata[j]
           IN  \/ a.priority > b.priority
               \/ /\ a.priority = b.priority
                  /\ a.ticket.creation_timestamp < b.ticket.creation_timestamp
               \/ /\ a.priority = b.priority
                  /\ a.ticket.creation_timestamp = b.ticket.creation_timestamp
                  /\ InputPosition(a.ticket.ticket_id) < InputPosition(b.ticket.ticket_id)
    /\ Len(assignments) <= Len(tickets_with_metadata)
    /\ \A k \in 1..Len(assignments) :
         assignments[k].ticket_id = tickets_with_metadata[k].ticket.ticket_id

\* C3 witness: a finished run of two tickets with the same priority and the
\* same timestamp.
C3_Witness ==
  /\ pc = "done"
  /\ Len(tickets_data) = 2
  /\ Len(assignments) = 2
  /\ tickets_with_metadata[1].priority = tickets_with_metadata[2].priority
  /\ tickets_data[1].creation_timestamp = tickets_data[2].creation_timestamp

\* C4: the agent picked for a ticket is an agent of the roster whose total,
\* computed with the current counters, is the maximum, and the first such in
\* roster order; it is the agent the emitted record names.
C4_BestAgent ==
  /\ (pc = "pick" /\ agents_data # <<>>) =>
       LET Total(agent) == CurrentScore(agent).total_score
       IN  /\ Len(agent_scores) = Len(agents_data)
           /\ agent_scores[1].agent = agents_data[FirstMaxIndex(Total, FLess)]
           /\ agent_scores[1].score_info = CurrentScore(agent_scores[1].agent)
  /\ (pc = "loop" /\ assignments # <<>>) =>
       Last(assignments).assigned_agent_id = agent_scores[1].agent.agent_id
  /\ \A k \in 1..Len(assignments) :
       \E i \in 1..Len(agents_data) :
         agents_data[i].agent_id = assignments[k].assigned_agent_id

\* C4 witness: a ticket was assigned to the first of two agents whose totals
\* were both the maximum.
C4_Witness ==
  /\ pc = "loop"
  /\ assignments # <<>>
  /\ Len(agent_scores) = 2
  /\ agent_scores[1].score_info.total_score = agent_scores[2].score_info.total_score
  /\ agent_scores[1].agent = agents_data[1]
  /\ Last(assignments).assigned_agent_id = agents_data[1].agent_id

\* C5: the priority of every annotated ticket is 10 if its lower-cased text
\* holds a critical phrase, else 8 for a high phrase, else 5 for a medium
\* phrase, else 2 for a low phrase, else 6.
C5_StrictTiers ==
  \A k \in 1..Len(tickets_with_metadata) :
    LET has == TierPhrasesOfText[TicketText(tickets_with_metadata[k].ticket)]
        priority == tickets_with_metadata[k].priority
    IN  /\ priority \in {2, 5, 6, 8, 10}
        /\ has["critical"] => priority = 10
        /\ (~has["critical"] /\ has["high"]) => priority = 8
        /\ (~has["critical"] /\ ~has["high"] /\ has["medium"]) => priority = 5
        /\ (~has["critical"] /\ ~has["high"] /\ ~has["medium"] /\ has["low"])
             => priority = 2
        /\ (~has["critical"] /\ ~has["high"] /\ ~has["medium"] /\ ~has["low"])
             => priority = 6

\* C5 witness: a ticket whose text holds a critical and a low phrase was
\* annotated with priority 10.
C5_Witness ==
  \E k \in 1..Len(tickets_with_metadata) :
    LET has == TierPhrasesOfText[TicketText(tickets_with_metadata[k].ticket)]
    IN  has["critical"] /\ has["low"] /\ tickets_with_metadata[k].priority = 10

\* C6 (as claimed): with an empty roster the run fails and writes nothing,
\* whatever the batch; and a written output holds the whole batch.
C6_EmptyRosterIsFatal ==
  /\ (data.present /\ agents_data = <<>>) => (pc # "done" /\ ~output_file.written)
  /\ output_file.written => Len(output_file.sample_output) = Len(tickets_data)

\* C7 (as claimed): a second run on the same dataset writes the same records.
C7_Deterministic ==
  (run = "second" /\ pc = "done") => output_file = prev_output

\* C8: the workload component of every score is max(0, (5 - load) * 6) of the
\* load it was computed with: 30, 24, 18, 12, 6 for loads 0..4, 0 from 5 on,
\* never negative, and never larger for a larger load.
C8_WorkloadScore ==
  pc = "pick" =>
    \A k \in 1..Len(agent_scores) :
      LET load == agent_loads[agent_scores[k].agent.agent_id]
          w    == agent_scores[k].score_info.workload_score
      IN  /\ w >= 0
          /\ load >= 5 => w = 0
          /\ load \in 0..4 => w = <<30, 24, 18, 12, 6>>[load + 1]
          /\ \A m \in 1..Len(agent_scores) :
               load <= agent_loads[agent_scores[m].agent.agent_id]
                 => w >= agent_scores[m].score_info.workload_score

\* C8 witness: scores computed for an agent with load 6 (component 0) and an
\* agent with a load below 5 (component positive).
C8_Witness ==
  /\ pc = "pick"
  /\ \E k, m \in 1..Len(agent_scores) :
       /\ agent_loads[agent_scores[k].agent.agent_id] >= 6
       /\ agent_scores[k].score_info.workload_score = 0
       /\ agent_loads[agent_scores[m].agent.agent_id] < 5
       /\ agent_scores[m].score_info.workload_score > 0

\* C9: a step that emits an assignment adds exactly 1 to the counter of the
\* assigned agent and leaves the other counters alone; within a run no
\* counter decreases; the loaded dataset (the agent records, the tickets and
\* their order) is never changed.
C9_LoadFrame ==
  [][ /\ data' = data
      /\ (pc # "main" /\ pc' # "main") =>
           /\ DOMAIN agent_loads' = DOMAIN agent_loads
           /\ \A id \in DOMAIN agent_loads : agent_loads'[id] >= agent_loads[id]
      /\ (pc = "pick" /\ pc' = "loop") =>
           /\ Len(assignments') = Len(assignments) + 1
           /\ LET id == Last(assignments').assigned_agent_id
              IN  /\ agent_loads'[id] = agent_loads[id] + 1
                  /\ \A other \in DOMAIN agent_loads \ {id} :
                       agent_loads'[other] = agent_loads[other]
    ]_vars

\* C9 witness: two tickets were assigned, to two different agents.
C9_Witness ==
  /\ pc = "done"
  /\ Len(assignments) = 2
  /\ assignments[1].assigned_agent_id # assignments[2].assigned_agent_id

====
